---- MODULE Spec2Model ----
(***************************************************************************)
(* Liney Link: the chain-assembly game of the two clients,                 *)
(*   "old" = src/docs/game.js         (wrongGuesses counter),              *)
(*   "new" = src/unnamed/part_002     (attemptsRemaining + localStorage).  *)
(* One session is modelled: the adjacency table (connections) is fixed at  *)
(* load, the handlers selectPlayer, clearSearchInput, addLinkage and       *)
(* removePlayer act on the chain, the attempt counter and the flags.       *)
(* Array indices are the 0-based indices of the source; At(s, i) reads     *)
(* element i of a JavaScript array.                                        *)
(***************************************************************************)
EXTENDS Integers, Sequences, FiniteSets, TLC

\* Number of players in the player table (ids 1..NumPlayers).
NumPlayers == 5

\* this.maxWrongGuesses = 3, also the initial attemptsRemaining.
maxWrongGuesses == 3

\* JavaScript null for selectedPlayer (player ids are positive).
NULL == 0

\* The old client's wrongGuesses counter is followed up to this value.
MaxWrongCount == 5

PlayerIds == 1..NumPlayers

\* Number of puzzle dates (dates 1..NumDates).
NumDates == 2

\* new Date().toISOString().split('T')[0]: the date of today
Today == 1

Dates == 1..NumDates

VARIABLES
    client,            \* "old" | "new": which client runs the session
    connections,       \* Map: String(id) -> sequence of linked ids (Set in insertion order)
    targetPlayers,     \* [start, end]
    playerChain,       \* sequence of [id, isTarget]
    selectedPlayer,    \* NULL or the selected player's id
    gameComplete,
    gameFailed,
    wrongGuesses,      \* old client
    attemptsRemaining, \* new client
    attemptsByMode,    \* new client
    currentDifficulty, \* new client
    currentPuzzleDate, \* new client: NULL (today) or the date loaded by loadRandomDay
    localStorage,      \* new client: storage key -> saved state
    modalSolution,     \* solution shown by showFailureModal (<<>> = none)
    errorMessage,      \* kind of the message shown by showError ("none" = hidden)
    pendingLoads,      \* new client: the calls of loadGameData() awaiting their fetches
    players,           \* data pipeline: id -> [position, totalMinutes, stints]
    sharedIceRecords,  \* data pipeline: pair of ids -> shared minutes
    processedPairs,    \* data pipeline: the pairs the graph builder has handled
    linkageGraph,      \* data pipeline: the set of LinkageEdges built
    oracleResult       \* data pipeline: the last answer of wereEverTeammates

vars == <<client, connections, targetPlayers, playerChain, selectedPlayer,
          gameComplete, gameFailed, wrongGuesses, attemptsRemaining,
          attemptsByMode, currentDifficulty, currentPuzzleDate, localStorage,
          modalSolution, errorMessage, pendingLoads,
          players, sharedIceRecords, processedPairs, linkageGraph, oracleResult>>

\* the variables of the data pipeline
pipelineVars == <<players, sharedIceRecords, processedPairs, linkageGraph, oracleResult>>

\* the variables of a game session
sessionVars == <<client, connections, targetPlayers, playerChain, selectedPlayer,
                 gameComplete, gameFailed, wrongGuesses, attemptsRemaining,
                 attemptsByMode, currentDifficulty, currentPuzzleDate, localStorage,
                 modalSolution, errorMessage, pendingLoads>>

----------------------------------------------------------------------------
\* JavaScript helpers

\* Number.prototype.toString for the ids of the player table.
toString(n) == <<"1", "2", "3", "4", "5", "6", "7", "8">>[n]

\* parseInt: String(x) read back as a decimal integer.
parseInt(x) == CHOOSE n \in 1..8 : toString(n) = toString(x)

\* array[i] with a 0-based index
At(s, i) == s[i + 1]

\* array.splice(index, 0, elem)
Splice(s, index, elem) ==
    SubSeq(s, 1, index) \o <<elem>> \o SubSeq(s, index + 1, Len(s))

\* array.some(p => p.id === id)
InChain(chain, id) == \E k \in 1..Len(chain) : chain[k].id = id

\* array.findIndex(p => p.id === id), -1 when absent
FindIndex(chain, id) ==
    IF InChain(chain, id)
    THEN (CHOOSE k \in 1..Len(chain) :
              chain[k].id = id /\ \A j \in 1..(k - 1) : chain[j].id # id) - 1
    ELSE -1

SeqToSet(s) == {s[k] : k \in 1..Len(s)}

----------------------------------------------------------------------------
\* The adjacency table

\* arePlayersLinked(playerId1, playerId2), the same in both clients
arePlayersLinked(playerId1, playerId2) ==
    IF toString(playerId1) \in DOMAIN connections
    THEN playerId2 \in SeqToSet(connections[toString(playerId1)])
    ELSE FALSE

\* The undirected pairs of distinct players
AllPairs == {e \in SUBSET PlayerIds : Cardinality(e) = 2}

RECURSIVE SortedSeq(_)
SortedSeq(S) ==
    IF S = {} THEN <<>>
    ELSE LET m == CHOOSE x \in S : \A y \in S : x <= y
         IN <<m>> \o SortedSeq(S \ {m})

Neighbours(edges, p) == {q \in PlayerIds : {p, q} \in edges}

\* connections.json as loaded by loadGameData: one key per player that has
\* at least one linemate, each list in ascending id order.
ConnectionsOf(edges) ==
    LET linked == {q \in PlayerIds : Neighbours(edges, q) # {}}
    IN [s \in {toString(p) : p \in linked} |->
           SortedSeq(Neighbours(edges, CHOOSE p \in PlayerIds : toString(p) = s))]

----------------------------------------------------------------------------
\* Old client: validateLinkage (src/docs/game.js)
\* A validation result: isValid, insertionIndex (-1 when invalid), error (the
\* kind of message returned) and wrong, which tells whether the call counted a
\* wrong guess (and ran the failGame test).

Invalid(error, wrong) ==
    [isValid |-> FALSE, insertionIndex |-> -1, error |-> error, wrong |-> wrong]
Valid(index) ==
    [isValid |-> TRUE, insertionIndex |-> index, error |-> "none", wrong |-> FALSE]

\* chain length 2: both targets are connection points
validate2(chain, playerId) ==
    LET connectsToLeft == arePlayersLinked(playerId, At(chain, 0).id)
        connectsToRight == arePlayersLinked(playerId, At(chain, 1).id)
    IN IF ~connectsToLeft /\ ~connectsToRight THEN Invalid("mustConnect", TRUE) ELSE Valid(1)

\* validate3 with the left target taken as a connection point also when the
\* gap lies between the middle player and the right target
validate3AnyTarget(chain, playerId) ==
    LET leftTarget == At(chain, 0)
        middlePlayer == At(chain, 1)
        rightTarget == At(chain, 2)
        leftToMiddleConnected == arePlayersLinked(leftTarget.id, middlePlayer.id)
        middleToRightConnected == arePlayersLinked(middlePlayer.id, rightTarget.id)
        connectsToLeftTarget == arePlayersLinked(playerId, leftTarget.id)
        connectsToMiddle == arePlayersLinked(playerId, middlePlayer.id)
        connectsToRightTarget == arePlayersLinked(playerId, rightTarget.id)
    IN IF leftToMiddleConnected /\ middleToRightConnected
       THEN Invalid("complete", FALSE)
       ELSE IF connectsToLeftTarget THEN Valid(1)
       ELSE IF connectsToMiddle \/ connectsToRightTarget
            THEN (IF leftToMiddleConnected THEN Valid(2) ELSE Valid(1))
       ELSE Invalid("mustConnect", TRUE)

\* chain length 3: the special-cased branch
validate3(chain, playerId) ==
    LET leftTarget == At(chain, 0)
        middlePlayer == At(chain, 1)
        rightTarget == At(chain, 2)
        leftToMiddleConnected == arePlayersLinked(leftTarget.id, middlePlayer.id)
        middleToRightConnected == arePlayersLinked(middlePlayer.id, rightTarget.id)
        connectsToLeftTarget == arePlayersLinked(playerId, leftTarget.id)
        connectsToMiddle == arePlayersLinked(playerId, middlePlayer.id)
        connectsToRightTarget == arePlayersLinked(playerId, rightTarget.id)
    IN IF ~leftToMiddleConnected /\ ~middleToRightConnected
       THEN IF connectsToLeftTarget THEN Valid(1)
            ELSE IF connectsToRightTarget THEN Valid(2)
            ELSE IF connectsToMiddle
                 THEN (IF connectsToLeftTarget THEN Valid(1) ELSE Valid(2))
            ELSE Invalid("mustConnect", TRUE)
       ELSE IF ~leftToMiddleConnected
       THEN IF connectsToLeftTarget THEN Valid(1)
            ELSE IF connectsToMiddle THEN Valid(1)
            ELSE Invalid("mustConnect", TRUE)
       ELSE IF ~middleToRightConnected
       THEN IF connectsToMiddle THEN Valid(2)
            ELSE IF connectsToRightTarget THEN Valid(2)
            ELSE Invalid("mustConnect", TRUE)
       ELSE Invalid("complete", FALSE)

\* the connection points of the gaps at indices i.. of the chain, in order
RECURSIVE connectionPoints(_, _)
connectionPoints(chain, i) ==
    IF i >= Len(chain) - 1 THEN <<>>
    ELSE (IF ~arePlayersLinked(At(chain, i).id, At(chain, i + 1).id)
          THEN << [player |-> At(chain, i), index |-> i, side |-> "left"],
                  [player |-> At(chain, i + 1), index |-> i + 1, side |-> "right"] >>
          ELSE <<>>)
         \o connectionPoints(chain, i + 1)

\* the filter predicate of validConnections
isValidConnection(chain, playerId, cp) ==
    IF ~arePlayersLinked(playerId, cp.player.id) THEN FALSE
    ELSE IF cp.side = "left"
         THEN ~(cp.index + 1 < Len(chain)
                /\ arePlayersLinked(cp.player.id, At(chain, cp.index + 1).id))
         ELSE ~(cp.index - 1 >= 0
                /\ arePlayersLinked(cp.player.id, At(chain, cp.index - 1).id))

\* chain length 4 or more
validateN(chain, playerId) ==
    LET cps == connectionPoints(chain, 0)
        validConnections == SelectSeq(cps, LAMBDA cp : isValidConnection(chain, playerId, cp))
    IN IF Len(cps) = 0 THEN Invalid("complete", TRUE)
       ELSE IF Len(validConnections) = 0 THEN Invalid("mustConnect", TRUE)
       ELSE LET chosenConnection == validConnections[1]
            IN IF chosenConnection.side = "right"
               THEN Valid(chosenConnection.index)
               ELSE Valid(chosenConnection.index + 1)

\* validateLinkage of the old client counting a duplicate as a wrong guess
validateLinkageOldCountingDuplicates(chain, playerId) ==
    IF InChain(chain, playerId) THEN Invalid("duplicate", TRUE)
    ELSE IF Len(chain) = 2 THEN validate2(chain, playerId)
    ELSE IF Len(chain) = 3 THEN validate3(chain, playerId)
    ELSE validateN(chain, playerId)

validateLinkageOld(chain, playerId) ==
    IF InChain(chain, playerId) THEN Invalid("duplicate", FALSE)
    ELSE IF Len(chain) = 2 THEN validate2(chain, playerId)
    ELSE IF Len(chain) = 3 THEN validate3(chain, playerId)
    ELSE validateN(chain, playerId)

----------------------------------------------------------------------------
\* New client: validateLinkage and findBestInsertionPoint (src/unnamed/part_002)

\* the chain indices the new player is linked to, ascending
connectedToPlayers(chain, playerId) ==
    SelectSeq([k \in 1..Len(chain) |-> k - 1],
              LAMBDA i : arePlayersLinked(playerId, At(chain, i).id))

\* the for-loop placing a player of the start chain before the chain player
\* it is linked to instead of after it
RECURSIVE scanNonTargetBefore(_, _, _)
scanNonTargetBefore(chain, conns, k) ==
    IF k > Len(conns) THEN -1
    ELSE LET index == conns[k]
             connectedPlayer == At(chain, index)
         IN IF index > 0
               /\ arePlayersLinked(connectedPlayer.id, At(chain, index - 1).id)
            THEN index
            ELSE IF index < Len(chain) - 1
                    /\ arePlayersLinked(connectedPlayer.id, At(chain, index + 1).id)
            THEN index
            ELSE scanNonTargetBefore(chain, conns, k + 1)

\* the for-loop over nonTargetConnections; -1 when no iteration returns
RECURSIVE scanNonTarget(_, _, _)
scanNonTarget(chain, conns, k) ==
    IF k > Len(conns) THEN -1
    ELSE LET index == conns[k]
             connectedPlayer == At(chain, index)
         IN IF index > 0
               /\ arePlayersLinked(connectedPlayer.id, At(chain, index - 1).id)
            THEN index + 1
            ELSE IF index < Len(chain) - 1
                    /\ arePlayersLinked(connectedPlayer.id, At(chain, index + 1).id)
            THEN index
            ELSE scanNonTarget(chain, conns, k + 1)

\* findBestInsertionPoint placing a player that builds from the end target
\* one position too far to the right
findBestInsertionPointPastEnd(chain, conns) ==
    LET startIndex == 0
        endIndex == Len(chain) - 1
        targetConnections == SelectSeq(conns, LAMBDA i : At(chain, i).isTarget)
        nonTargetConnections == SelectSeq(conns, LAMBDA i : ~At(chain, i).isTarget)
        connectedToStart == \E k \in 1..Len(targetConnections) : targetConnections[k] = startIndex
        connectedToEnd == \E k \in 1..Len(targetConnections) : targetConnections[k] = endIndex
    IN IF Len(nonTargetConnections) > 0
       THEN LET found == scanNonTarget(chain, nonTargetConnections, 1)
            IN IF found # -1 THEN found ELSE nonTargetConnections[1] + 1
       ELSE IF connectedToStart /\ ~connectedToEnd THEN 1
       ELSE IF connectedToEnd /\ ~connectedToStart THEN endIndex + 1
       ELSE 1

findBestInsertionPoint(chain, conns) ==
    LET startIndex == 0
        endIndex == Len(chain) - 1
        targetConnections == SelectSeq(conns, LAMBDA i : At(chain, i).isTarget)
        nonTargetConnections == SelectSeq(conns, LAMBDA i : ~At(chain, i).isTarget)
        connectedToStart == \E k \in 1..Len(targetConnections) : targetConnections[k] = startIndex
        connectedToEnd == \E k \in 1..Len(targetConnections) : targetConnections[k] = endIndex
    IN IF Len(nonTargetConnections) > 0
       THEN LET found == scanNonTarget(chain, nonTargetConnections, 1)
            IN IF found # -1 THEN found ELSE nonTargetConnections[1] + 1
       ELSE IF connectedToStart /\ ~connectedToEnd THEN 1
       ELSE IF connectedToEnd /\ ~connectedToStart THEN endIndex
       ELSE IF connectedToStart /\ connectedToEnd THEN 1
       ELSE 1

\* validateLinkage without the test for a player already in the chain
validateLinkageNewAllowingDuplicates(chain, playerId) ==
    LET conns == connectedToPlayers(chain, playerId)
    IN IF Len(conns) = 0 THEN Invalid("notConnected", TRUE)
       ELSE Valid(findBestInsertionPoint(chain, conns))

validateLinkageNew(chain, playerId) ==
    IF InChain(chain, playerId) THEN Invalid("duplicate", FALSE)
    ELSE LET conns == connectedToPlayers(chain, playerId)
         IN IF Len(conns) = 0 THEN Invalid("notConnected", TRUE)
            ELSE Valid(findBestInsertionPoint(chain, conns))

----------------------------------------------------------------------------
\* insertPlayerInChain and isPuzzleComplete

\* insertPlayerInChain that inserts one position too far to the right
insertPlayerInChainAfter(chain, playerId, insertionIndex) ==
    Splice(chain, insertionIndex + 1, [id |-> playerId, isTarget |-> FALSE])

insertPlayerInChain(chain, playerId, insertionIndex) ==
    Splice(chain, insertionIndex, [id |-> playerId, isTarget |-> FALSE])

\* every adjacent pair of the chain is linked
allLinked(chain) ==
    \A i \in 0..(Len(chain) - 2) :
        arePlayersLinked(At(chain, i).id, At(chain, i + 1).id)

isPuzzleCompleteOld(chain) == allLinked(chain)

isPuzzleCompleteNew(chain) ==
    IF ~(\E k \in 1..Len(chain) : ~chain[k].isTarget) THEN FALSE
    ELSE allLinked(chain)

----------------------------------------------------------------------------
\* Removal

\* Old client: cascadeRemoval(removedIndex) gives the new playerChain
firstGap(chain) ==
    LET gaps == {i \in 0..(Len(chain) - 2) :
                    ~arePlayersLinked(At(chain, i).id, At(chain, i + 1).id)}
    IN IF gaps = {} THEN -1 ELSE CHOOSE i \in gaps : \A j \in gaps : i <= j

\* [chain[lo], ..., chain[hi]], empty when hi < lo
Slice(chain, lo, hi) ==
    IF hi < lo THEN <<>> ELSE SubSeq(chain, lo + 1, hi + 1)

\* cascadeRemoval that removes the one player only
cascadeRemovalSingle(chain, removedIndex) ==
    Slice(chain, 0, removedIndex - 1) \o Slice(chain, removedIndex + 1, Len(chain) - 1)

\* cascadeRemoval that cascades toward the target instead of toward the gap
cascadeRemovalOutward(chain, removedIndex) ==
    LET leftTarget == At(chain, 0)
        rightTarget == At(chain, Len(chain) - 1)
        gapIndex == firstGap(chain)
        last == Len(chain) - 2
    IN <<leftTarget>>
       \o (IF gapIndex = -1
           THEN Slice(chain, 1, removedIndex - 1) \o Slice(chain, removedIndex + 1, last)
           ELSE IF removedIndex <= gapIndex
           THEN Slice(chain, removedIndex + 1, last)
           ELSE Slice(chain, 1, removedIndex - 1))
       \o <<rightTarget>>

cascadeRemoval(chain, removedIndex) ==
    LET leftTarget == At(chain, 0)
        rightTarget == At(chain, Len(chain) - 1)
        gapIndex == firstGap(chain)
        last == Len(chain) - 2
    IN <<leftTarget>>
       \o (IF gapIndex = -1
           THEN Slice(chain, 1, removedIndex - 1) \o Slice(chain, removedIndex + 1, last)
           ELSE IF removedIndex <= gapIndex
           THEN Slice(chain, 1, removedIndex - 1) \o Slice(chain, gapIndex + 1, last)
           ELSE Slice(chain, 1, gapIndex) \o Slice(chain, removedIndex + 1, last))
       \o <<rightTarget>>

\* New client: the two traces of removePlayer over the spliced chain
RECURSIVE traceFromStart(_, _, _)
traceFromStart(chain, i, lastValidFromStart) ==
    IF i >= Len(chain) - 1 THEN {}
    ELSE IF arePlayersLinked(At(chain, i).id, At(chain, lastValidFromStart).id)
         THEN {At(chain, i).id} \cup traceFromStart(chain, i + 1, i)
         ELSE {}

RECURSIVE traceFromEnd(_, _, _)
traceFromEnd(chain, i, lastValidFromEnd) ==
    IF i <= 0 THEN {}
    ELSE IF arePlayersLinked(At(chain, i).id, At(chain, lastValidFromEnd).id)
         THEN {At(chain, i).id} \cup traceFromEnd(chain, i - 1, i)
         ELSE {}

\* the chain after splice(playerIndex, 1)
spliceOut(chain, playerIndex) ==
    SubSeq(chain, 1, playerIndex) \o SubSeq(chain, playerIndex + 2, Len(chain))

\* removePlayer taking out the one player only, without the filter
removeFilterKeepingAll(spliced) == spliced

\* the filtered chain of removePlayer (spliced is not empty)
removeFilter(spliced) ==
    LET startIndex == 0
        endIndex == Len(spliced) - 1
        validPlayers == {At(spliced, startIndex).id, At(spliced, endIndex).id}
                        \cup traceFromStart(spliced, 1, startIndex)
                        \cup traceFromEnd(spliced, Len(spliced) - 2, endIndex)
    IN SelectSeq(spliced, LAMBDA player : player.isTarget \/ player.id \in validPlayers)

----------------------------------------------------------------------------
\* findShortestSolution: breadth-first search over paths; <<>> stands for null

\* the for-loop leaving at the first connection it pushes
RECURSIVE expandFirstUnvisited(_, _, _, _, _)
expandFirstUnvisited(path, conns, k, queue, visited) ==
    IF k > Len(conns) THEN [queue |-> queue, visited |-> visited]
    ELSE LET nextIdNum == parseInt(conns[k])
         IN IF nextIdNum \notin visited
            THEN [queue |-> Append(queue, Append(path, nextIdNum)),
                  visited |-> visited \cup {nextIdNum}]
            ELSE expandFirstUnvisited(path, conns, k + 1, queue, visited)

\* the for-loop over the connections of the dequeued path's last player
RECURSIVE expand(_, _, _, _, _)
expand(path, conns, k, queue, visited) ==
    IF k > Len(conns) THEN [queue |-> queue, visited |-> visited]
    ELSE LET nextIdNum == parseInt(conns[k])
         IN IF nextIdNum \notin visited
            THEN expand(path, conns, k + 1, Append(queue, Append(path, nextIdNum)),
                        visited \cup {nextIdNum})
            ELSE expand(path, conns, k + 1, queue, visited)

\* the search taking the path pushed last instead of the path pushed first
RECURSIVE bfsLastPushedFirst(_, _, _)
bfsLastPushedFirst(queue, visited, endId) ==
    IF Len(queue) = 0 THEN <<>>
    ELSE LET path == queue[Len(queue)]
             currentId == path[Len(path)]
             rest == SubSeq(queue, 1, Len(queue) - 1)
         IN IF currentId = endId THEN path
            ELSE IF toString(currentId) \in DOMAIN connections
                 THEN LET r == expand(path, connections[toString(currentId)], 1,
                                      rest, visited)
                      IN bfsLastPushedFirst(r.queue, r.visited, endId)
                 ELSE bfsLastPushedFirst(rest, visited, endId)

RECURSIVE bfs(_, _, _)
bfs(queue, visited, endId) ==
    IF Len(queue) = 0 THEN <<>>
    ELSE LET path == Head(queue)
             currentId == path[Len(path)]
         IN IF currentId = endId THEN path
            ELSE IF toString(currentId) \in DOMAIN connections
                 THEN LET r == expand(path, connections[toString(currentId)], 1,
                                      Tail(queue), visited)
                      IN bfs(r.queue, r.visited, endId)
                 ELSE bfs(Tail(queue), visited, endId)

\* the while-loop of findShortestSolution with a log of its work: the players
\* in the order of their queue.push (the start player first) and the number
\* of queue.shift calls
RECURSIVE bfsLog(_, _, _, _, _)
bfsLog(queue, visited, endId, pushed, shifts) ==
    IF Len(queue) = 0 THEN [path |-> <<>>, pushed |-> pushed, shifts |-> shifts]
    ELSE LET path == Head(queue)
             currentId == path[Len(path)]
         IN IF currentId = endId
            THEN [path |-> path, pushed |-> pushed, shifts |-> shifts + 1]
            ELSE IF toString(currentId) \in DOMAIN connections
                 THEN LET r == expand(path, connections[toString(currentId)], 1,
                                      Tail(queue), visited)
                          new == SubSeq(r.queue, Len(queue), Len(r.queue))
                      IN bfsLog(r.queue, r.visited, endId,
                                pushed \o [i \in 1..Len(new) |-> new[i][Len(new[i])]],
                                shifts + 1)
                 ELSE bfsLog(Tail(queue), visited, endId, pushed, shifts + 1)

\* findShortestSolution that takes the players of the chain as visited
findShortestSolutionAroundChain ==
    bfs(<< <<targetPlayers.start>> >>,
        {targetPlayers.start}
            \cup ({playerChain[k].id : k \in 1..Len(playerChain)} \ {targetPlayers.end}),
        targetPlayers.end)

findShortestSolutionNew ==
    bfs(<< <<targetPlayers.start>> >>, {targetPlayers.start}, targetPlayers.end)

findShortestSolutionOld ==
    IF targetPlayers.start = NULL \/ targetPlayers.end = NULL THEN <<>>
    ELSE bfs(<< <<targetPlayers.start>> >>, {targetPlayers.start}, targetPlayers.end)

\* showFailureModal: the solution put into the modal, <<>> when none is shown
showFailureModal(solution) == IF Len(solution) > 0 THEN solution ELSE <<>>

----------------------------------------------------------------------------
\* New client: saveGameState

Difficulties == {"easy", "hard"}

\* a key that names the date only, the same for both difficulties
storageKeyOfDate(date, difficulty) == <<date, "easy">>

\* the key `liney_${date}_${difficulty}` of an item of localStorage
storageKey(date, difficulty) == <<date, difficulty>>

StorageKeys == {storageKey(date, difficulty) : date \in Dates, difficulty \in Difficulties}

\* this.currentPuzzleDate || today
puzzleDateOf(s) == IF s.currentPuzzleDate # NULL THEN s.currentPuzzleDate ELSE Today

\* the item stored under the key of the current date and difficulty
savedState(chain, attempts, complete, failed) ==
    << [playerChain |-> chain, attemptsRemaining |-> attempts,
        completed |-> complete, failed |-> failed] >>

----------------------------------------------------------------------------
\* The data pipeline (player_linkages.py, find_valid_pairs.py): the Linkage
\* Graph Builder and the Teammate Oracle

\* Number of players of the reference table of the pipeline.
NumPipelinePlayers == 3

\* Number of team ids.
NumTeams == 2

\* Number of season ids.
NumSeasons == 2

\* Longest team-stint list of a player.
MaxStints == 2

\* minimum percentage of a player's minutes that a pair must share
linkageThreshold == 5

PipelinePlayers == 1..NumPipelinePlayers

\* the position codes of players/[playerId].json
Positions == {"C", "L", "R", "D", "G"}

\* the unordered pairs of players
PipelinePairs == {e \in SUBSET PipelinePlayers : Cardinality(e) = 2}

\* C/L/R are Forwards, D are Defensemen, G are Goalies
positionCategory(position) ==
    IF position \in {"C", "L", "R"} THEN "Forward"
    ELSE IF position = "D" THEN "Defense"
    ELSE "Goalie"

\* the position-compatibility policy, with the goalies of any pair let through
compatiblePositionsWithGoalies(x, y) ==
    positionCategory(players[x].position) = positionCategory(players[y].position)

\* the position-compatibility policy: neither player is a goalie and both
\* are of the same position category
compatiblePositions(x, y) ==
    /\ positionCategory(players[x].position) # "Goalie"
    /\ positionCategory(players[y].position) # "Goalie"
    /\ positionCategory(players[x].position) = positionCategory(players[y].position)

\* percentOfX = sharedMinutes / totalMinutes(X), in whole percent
percentOf(sharedMinutes, x) == (sharedMinutes * 100) \div players[x].totalMinutes

Max(a, b) == IF a >= b THEN a ELSE b

\* the LinkageEdges the builder derives from the SharedIceRecord of a pair
buildEdges(pair) ==
    LET x == CHOOSE p \in pair : \A q \in pair : p <= q
        y == CHOOSE p \in pair : \A q \in pair : p >= q
        percentOfX == percentOf(sharedIceRecords[pair], x)
        percentOfY == percentOf(sharedIceRecords[pair], y)
    IN IF Max(percentOfX, percentOfY) >= linkageThreshold /\ compatiblePositions(x, y)
       THEN {[pair |-> pair, percentOfX |-> percentOfX, percentOfY |-> percentOfY]}
       ELSE {}

\* the stints of a list from the i-th on hold a stint of the team (the same
\* franchise), in whatever season
RECURSIVE hasTeam(_, _, _, _)
hasTeam(stints, i, team, season) ==
    IF i > Len(stints) THEN FALSE
    ELSE IF stints[i].team = team THEN TRUE
    ELSE hasTeam(stints, i + 1, team, season)

\* the stints of a list from the i-th on hold a stint of team and season
RECURSIVE hasTeamSeason(_, _, _, _)
hasTeamSeason(stints, i, team, season) ==
    IF i > Len(stints) THEN FALSE
    ELSE IF stints[i].team = team /\ stints[i].season = season THEN TRUE
    ELSE hasTeamSeason(stints, i + 1, team, season)

\* the scan of wereEverTeammates over the stints of the first player
RECURSIVE scanStints(_, _, _)
scanStints(stintsA, i, stintsB) ==
    IF i > Len(stintsA) THEN FALSE
    ELSE IF hasTeamSeason(stintsB, 1, stintsA[i].team, stintsA[i].season) THEN TRUE
    ELSE scanStints(stintsA, i + 1, stintsB)

\* wereEverTeammates(A, B)
wereEverTeammates(a, b) == scanStints(players[a].stints, 1, players[b].stints)

\* a session runs without the pipeline: its tables are not loaded
NoPipeline ==
    /\ players = <<>>
    /\ sharedIceRecords = <<>>
    /\ processedPairs = {}
    /\ linkageGraph = {}
    /\ oracleResult = <<>>

----------------------------------------------------------------------------
\* The session after construction and a first loadGameData without saved state

\* The graphs of a session. The two targets (ids 1 and 2) are never directly
\* linked: a puzzle pair needs at least one intermediate player. The other ids
\* are interchangeable labels (the clients only test ids for equality and set
\* membership), so of the graphs that differ by renaming them one with
\* non-increasing degrees is taken.
Degree(edges, p) == Cardinality(Neighbours(edges, p))

Graphs ==
    {edges \in SUBSET (AllPairs \ {{1, 2}}) :
        \A p, q \in PlayerIds \ {1, 2} :
            p < q => Degree(edges, p) >= Degree(edges, q)}

initialChain(start, end) ==
    << [id |-> start, isTarget |-> TRUE], [id |-> end, isTarget |-> TRUE] >>

InitSession ==
    /\ \E edges \in Graphs : connections = ConnectionsOf(edges)
    /\ targetPlayers = [start |-> 1, end |-> 2]
    /\ playerChain = initialChain(1, 2)
    /\ selectedPlayer = NULL
    /\ gameComplete = FALSE
    /\ gameFailed = FALSE
    /\ wrongGuesses = 0
    /\ attemptsRemaining = maxWrongGuesses
    /\ attemptsByMode = [d \in Difficulties |-> maxWrongGuesses]
    /\ currentDifficulty = "easy"
    /\ currentPuzzleDate = NULL
    /\ localStorage = [key \in StorageKeys |-> <<>>]
    /\ modalSolution = <<>>
    /\ errorMessage = "none"
    /\ pendingLoads = <<>>
    /\ NoPipeline

InitOld == client = "old" /\ InitSession
InitNew == client = "new" /\ InitSession
Init == client \in {"old", "new"} /\ InitSession

----------------------------------------------------------------------------
\* Handlers. Each handler is a function from the session fields before the
\* call to the session fields when it returns; its action applies it to the
\* current state.

Session ==
    [playerChain |-> playerChain, selectedPlayer |-> selectedPlayer,
     gameComplete |-> gameComplete, gameFailed |-> gameFailed,
     wrongGuesses |-> wrongGuesses, attemptsRemaining |-> attemptsRemaining,
     attemptsByMode |-> attemptsByMode, localStorage |-> localStorage,
     targetPlayers |-> targetPlayers, currentDifficulty |-> currentDifficulty,
     currentPuzzleDate |-> currentPuzzleDate,
     modalSolution |-> modalSolution, errorMessage |-> errorMessage]

\* the session fields become s and the loads in flight become loads
BecomesLoading(s, loads) ==
    /\ playerChain' = s.playerChain
    /\ selectedPlayer' = s.selectedPlayer
    /\ gameComplete' = s.gameComplete
    /\ gameFailed' = s.gameFailed
    /\ wrongGuesses' = s.wrongGuesses
    /\ attemptsRemaining' = s.attemptsRemaining
    /\ attemptsByMode' = s.attemptsByMode
    /\ localStorage' = s.localStorage
    /\ modalSolution' = s.modalSolution
    /\ errorMessage' = s.errorMessage
    /\ targetPlayers' = s.targetPlayers
    /\ currentDifficulty' = s.currentDifficulty
    /\ currentPuzzleDate' = s.currentPuzzleDate
    /\ pendingLoads' = loads
    /\ UNCHANGED <<client, connections>>
    /\ UNCHANGED pipelineVars

\* Becomes for handlers that delete the table entry of a player they insert
BecomesDeletingInserted(s) ==
    /\ playerChain' = s.playerChain
    /\ selectedPlayer' = s.selectedPlayer
    /\ gameComplete' = s.gameComplete
    /\ gameFailed' = s.gameFailed
    /\ wrongGuesses' = s.wrongGuesses
    /\ attemptsRemaining' = s.attemptsRemaining
    /\ attemptsByMode' = s.attemptsByMode
    /\ localStorage' = s.localStorage
    /\ modalSolution' = s.modalSolution
    /\ errorMessage' = s.errorMessage
    /\ connections' =
           [key \in {x \in DOMAIN connections :
                        \A k \in 1..Len(s.playerChain) :
                            s.playerChain[k].isTarget \/ toString(s.playerChain[k].id) # x}
               |-> connections[key]]
    /\ targetPlayers' = s.targetPlayers
    /\ currentDifficulty' = s.currentDifficulty
    /\ currentPuzzleDate' = s.currentPuzzleDate
    /\ UNCHANGED client
    /\ UNCHANGED pendingLoads
    /\ UNCHANGED pipelineVars

Becomes(s) == BecomesLoading(s, pendingLoads)

\* selectPlayer(playerId, playerName): a click on a suggestion (clearError)
selectPlayer(s, playerId) ==
    [s EXCEPT !.selectedPlayer = playerId, !.errorMessage = "none"]

\* clearSearchInput(): the new client also calls clearError
clearSearchInput(s) ==
    [s EXCEPT !.selectedPlayer = NULL,
              !.errorMessage = IF client = "new" THEN "none" ELSE @]

\* handleSearchInput(e) with a query shorter than two characters
handleSearchInput(s) == [s EXCEPT !.selectedPlayer = NULL]

\* clearInput(): selectedPlayer = null; clearError()
clearInput(s) == [s EXCEPT !.selectedPlayer = NULL, !.errorMessage = "none"]

\* clearError(), run by the timer that showError sets
clearError(s) == [s EXCEPT !.errorMessage = "none"]

\* Old client: failGame() with showFailureModal()
failGameOld(s) ==
    [s EXCEPT !.gameFailed = TRUE,
              !.modalSolution = showFailureModal(findShortestSolutionOld)]

\* Old client: completePuzzle()
completePuzzleOld(s) == [s EXCEPT !.gameComplete = TRUE]

\* Old client: the wrong-guess branches of validateLinkage
countWrongGuessOld(s) ==
    LET counted == [s EXCEPT !.wrongGuesses = @ + 1]
    IN IF counted.wrongGuesses >= maxWrongGuesses THEN failGameOld(counted)
       ELSE counted

\* Old client: addLinkage()
addLinkageOld(s) ==
    IF s.selectedPlayer = NULL \/ s.gameComplete THEN s
    ELSE LET validation == validateLinkageOld(s.playerChain, s.selectedPlayer)
             validated == IF validation.wrong THEN countWrongGuessOld(s) ELSE s
         IN IF ~validation.isValid
            THEN [validated EXCEPT !.errorMessage = validation.error]
            ELSE LET inserted ==
                         [validated EXCEPT !.playerChain =
                              insertPlayerInChain(@, s.selectedPlayer,
                                                  validation.insertionIndex)]
                 IN IF isPuzzleCompleteOld(inserted.playerChain)
                    THEN completePuzzleOld(inserted)
                    ELSE clearInput(inserted)

\* removePlayer of the old client without the test of gameComplete and gameFailed
removePlayerOldUnguarded(s, playerId) ==
    LET playerIndex == FindIndex(s.playerChain, playerId)
    IN IF playerIndex = -1 \/ At(s.playerChain, playerIndex).isTarget THEN s
       ELSE LET removed ==
                    clearInput([s EXCEPT !.playerChain = cascadeRemoval(@, playerIndex)])
            IN IF isPuzzleCompleteOld(removed.playerChain)
               THEN completePuzzleOld(removed)
               ELSE removed

\* removePlayer of the old client without the completion test after the removal
removePlayerOldWithoutRecheck(s, playerId) ==
    IF s.gameComplete \/ s.gameFailed THEN s
    ELSE LET playerIndex == FindIndex(s.playerChain, playerId)
         IN IF playerIndex = -1 \/ At(s.playerChain, playerIndex).isTarget THEN s
            ELSE clearInput([s EXCEPT !.playerChain = cascadeRemoval(@, playerIndex)])

\* Old client: removePlayer(playerId)
removePlayerOld(s, playerId) ==
    IF s.gameComplete \/ s.gameFailed THEN s
    ELSE LET playerIndex == FindIndex(s.playerChain, playerId)
         IN IF playerIndex = -1 \/ At(s.playerChain, playerIndex).isTarget THEN s
            ELSE LET removed ==
                         clearInput([s EXCEPT !.playerChain =
                                         cascadeRemoval(@, playerIndex)])
                 IN IF isPuzzleCompleteOld(removed.playerChain)
                    THEN completePuzzleOld(removed)
                    ELSE removed

\* New client: saveGameState()
saveGameState(s) ==
    [s EXCEPT !.localStorage[storageKey(puzzleDateOf(s), s.currentDifficulty)] =
                  savedState(s.playerChain, s.attemptsRemaining,
                             s.gameComplete, s.gameFailed),
              !.attemptsByMode[s.currentDifficulty] = s.attemptsRemaining]

\* failGame() that does not save the failed session
failGameNewUnsaved(s) ==
    [s EXCEPT !.gameFailed = TRUE,
              !.modalSolution = showFailureModal(findShortestSolutionNew)]

\* New client: failGame() with showFailureModal()
failGameNew(s) ==
    LET saved == saveGameState([s EXCEPT !.gameFailed = TRUE])
    IN [saved EXCEPT !.modalSolution = showFailureModal(findShortestSolutionNew)]

\* New client: completePuzzle()
completePuzzleNew(s) == saveGameState([s EXCEPT !.gameComplete = TRUE])

\* the wrong-guess branch of the new client failing one guess too late
countWrongGuessNewLate(s) ==
    LET saved == saveGameState([s EXCEPT !.attemptsRemaining = @ - 1])
    IN IF saved.attemptsRemaining < 0
       THEN failGameNew([saved EXCEPT !.attemptsRemaining = 0])
       ELSE saved

\* New client: the wrong-guess branch of validateLinkage
countWrongGuessNew(s) ==
    LET saved == saveGameState([s EXCEPT !.attemptsRemaining = @ - 1])
    IN IF saved.attemptsRemaining <= 0
       THEN failGameNew([saved EXCEPT !.attemptsRemaining = 0])
       ELSE saved

\* New client: addLinkage()
addLinkageNew(s) ==
    IF s.selectedPlayer = NULL \/ s.gameComplete THEN s
    ELSE LET validation == validateLinkageNew(s.playerChain, s.selectedPlayer)
             validated == IF validation.wrong THEN countWrongGuessNew(s) ELSE s
         IN IF ~validation.isValid
            THEN [validated EXCEPT !.errorMessage = validation.error]
            ELSE LET inserted ==
                         saveGameState(
                             [validated EXCEPT !.playerChain =
                                  insertPlayerInChain(@, s.selectedPlayer,
                                                      validation.insertionIndex)])
                 IN IF isPuzzleCompleteNew(inserted.playerChain)
                    THEN completePuzzleNew(inserted)
                    ELSE clearInput(inserted)

\* removePlayer of the new client with the guard of addLinkage (gameComplete only)
removePlayerNewAfterFailure(s, playerId) ==
    IF s.gameComplete THEN s
    ELSE LET playerIndex == FindIndex(s.playerChain, playerId)
         IN IF playerIndex = -1 THEN s
            ELSE LET spliced == spliceOut(s.playerChain, playerIndex)
                 IN IF Len(spliced) = 0
                    THEN [s EXCEPT !.playerChain = spliced]
                    ELSE LET removed ==
                                 saveGameState(clearInput(
                                     [s EXCEPT !.playerChain = removeFilter(spliced)]))
                         IN IF isPuzzleCompleteNew(removed.playerChain)
                            THEN completePuzzleNew(removed)
                            ELSE removed

\* New client: removePlayer(playerId)
removePlayerNew(s, playerId) ==
    IF s.gameComplete \/ s.gameFailed THEN s
    ELSE LET playerIndex == FindIndex(s.playerChain, playerId)
         IN IF playerIndex = -1 THEN s
            ELSE LET spliced == spliceOut(s.playerChain, playerIndex)
                 IN IF Len(spliced) = 0
                    THEN \* this.playerChain[startIndex].id throws a TypeError
                         [s EXCEPT !.playerChain = spliced]
                    ELSE LET removed ==
                                 saveGameState(clearInput(
                                     [s EXCEPT !.playerChain = removeFilter(spliced)]))
                         IN IF isPuzzleCompleteNew(removed.playerChain)
                            THEN completePuzzleNew(removed)
                            ELSE removed

\* New client: removePlayer(playerId) ends with a TypeError instead of returning:
\* the splice emptied the chain and this.playerChain[startIndex].id reads a
\* property of undefined
removePlayerNewThrows(s, playerId) ==
    /\ ~(s.gameComplete \/ s.gameFailed)
    /\ FindIndex(s.playerChain, playerId) # -1
    /\ Len(spliceOut(s.playerChain, FindIndex(s.playerChain, playerId))) = 0

\* this.completionModal.style.display = 'none'
hideModal(s) == [s EXCEPT !.modalSolution = <<>>]

\* the position of the difficulty toggle after a change event
toggled(difficulty) == IF difficulty = "easy" THEN "hard" ELSE "easy"

\* gameData.playerA and gameData.playerB of the puzzle file of a date and a
\* difficulty (the old client's files have no difficulty: it reads "easy")
PuzzleTargets(date, difficulty) ==
    IF (date = Today) <=> (difficulty = "easy")
    THEN [start |-> 1, end |-> 2]
    ELSE [start |-> 2, end |-> 1]

\* New client: loadGameState(puzzleDate), the session and the returned flag
loadGameState(s, puzzleDate) ==
    LET item == s.localStorage[storageKey(puzzleDate, s.currentDifficulty)]
    IN IF item # <<>>
       THEN LET state == item[1]
                savedChain == state.playerChain
            IN IF /\ Len(savedChain) >= 2
                  /\ \/ savedChain[1].id # s.targetPlayers.start
                     \/ savedChain[Len(savedChain)].id # s.targetPlayers.end
               THEN [session |-> s, loaded |-> FALSE]
               ELSE [session |->
                         [s EXCEPT !.playerChain = savedChain,
                                   !.attemptsRemaining = state.attemptsRemaining,
                                   !.gameComplete = state.completed,
                                   !.gameFailed = state.failed,
                                   !.attemptsByMode[s.currentDifficulty] =
                                       state.attemptsRemaining],
                     loaded |-> TRUE]
       ELSE [session |-> s, loaded |-> FALSE]

\* New client: initializeGame()
initializeGameNew(s) ==
    IF Len(s.playerChain) = 0
    THEN [s EXCEPT !.playerChain =
                       initialChain(s.targetPlayers.start, s.targetPlayers.end)]
    ELSE s

\* New client: loadGameData() up to its first await: the puzzle file it
\* fetches is the one of the puzzle date and the difficulty of that moment
fetchPuzzle(s) == [puzzleDate |-> puzzleDateOf(s), difficulty |-> s.currentDifficulty]

\* New client: loadGameData() after its awaits, the fetches of load answered.
\* gameData comes from the file fetched; loadGameState reads the difficulty
\* the session has now.
continueLoadGameData(s, load) ==
    LET withTargets ==
            [s EXCEPT !.targetPlayers = PuzzleTargets(load.puzzleDate, load.difficulty)]
        hasLoadedState == loadGameState(withTargets, load.puzzleDate)
        t == hasLoadedState.session
    IN initializeGameNew(
           IF hasLoadedState.loaded THEN t
           ELSE [t EXCEPT !.attemptsRemaining = t.attemptsByMode[t.currentDifficulty]])

\* New client: loadGameData(), the fetches answered and the continuation run
loadGameDataNew(s) == continueLoadGameData(s, fetchPuzzle(s))

\* New client: handleDifficultyChange() up to its call of loadGameData()
switchDifficulty(s) ==
    LET hasProgress == \/ Len(s.playerChain) > 2
                       \/ s.gameComplete
                       \/ s.gameFailed
                       \/ s.attemptsRemaining < 3
        saved == IF hasProgress THEN saveGameState(s) ELSE s
        tracked == [saved EXCEPT !.attemptsByMode[saved.currentDifficulty] =
                                     saved.attemptsRemaining]
        switched == [tracked EXCEPT !.currentDifficulty = toggled(tracked.currentDifficulty)]
        cleared == clearInput(hideModal(switched))
    IN [cleared EXCEPT !.gameComplete = FALSE,
                       !.gameFailed = FALSE,
                       !.playerChain = <<>>,
                       !.selectedPlayer = NULL,
                       !.attemptsRemaining =
                           cleared.attemptsByMode[cleared.currentDifficulty]]

\* New client: handleDifficultyChange(), the load finishing before it returns
handleDifficultyChange(s) == loadGameDataNew(switchDifficulty(s))

\* New client: resetGameState()
resetGameState(s) ==
    clearError(clearInput([s EXCEPT !.attemptsRemaining = 3,
                                    !.gameComplete = FALSE,
                                    !.gameFailed = FALSE,
                                    !.selectedPlayer = NULL]))

\* New client: loadRandomDay() when the puzzle file of the drawn date is served
loadRandomDayNew(s, randomDate) ==
    LET targets == PuzzleTargets(randomDate, s.currentDifficulty)
    IN hideModal(resetGameState(
           [s EXCEPT !.currentPuzzleDate = randomDate,
                     !.targetPlayers = targets,
                     !.playerChain = initialChain(targets.start, targets.end)]))

\* Old client: loadRandomDay() when the puzzle file of the drawn date is served.
\* It assigns false to gameCompleted, a property nothing else reads or writes;
\* gameComplete keeps its value.
loadRandomDayOld(s, randomDate) ==
    LET targets == PuzzleTargets(randomDate, "easy")
    IN clearInput(hideModal(
           [s EXCEPT !.targetPlayers = targets,
                     !.playerChain = initialChain(targets.start, targets.end),
                     !.wrongGuesses = 0,
                     !.gameFailed = FALSE]))

SelectPlayer ==
    \E playerId \in PlayerIds : \E s \in {selectPlayer(Session, playerId)} : Becomes(s)

ClearSearchInput == \E s \in {clearSearchInput(Session)} : Becomes(s)

HandleSearchInput == \E s \in {handleSearchInput(Session)} : Becomes(s)

ClearErrorTimer ==
    /\ errorMessage # "none"
    /\ \E s \in {clearError(Session)} : Becomes(s)

AddLinkageOld ==
    /\ client = "old"
    /\ wrongGuesses < MaxWrongCount
    /\ \E s \in {addLinkageOld(Session)} : Becomes(s)

RemovePlayerOld ==
    /\ client = "old"
    /\ \E playerId \in PlayerIds :
           \E s \in {removePlayerOld(Session, playerId)} : Becomes(s)

AddLinkageNew ==
    /\ client = "new"
    /\ \E s \in {addLinkageNew(Session)} : Becomes(s)

RemovePlayerNew ==
    /\ client = "new"
    /\ \E playerId \in PlayerIds :
           \E s \in {removePlayerNew(Session, playerId)} : Becomes(s)

NextOld ==
    \/ SelectPlayer
    \/ ClearSearchInput
    \/ HandleSearchInput
    \/ ClearErrorTimer
    \/ AddLinkageOld
    \/ RemovePlayerOld

NextNew ==
    \/ SelectPlayer
    \/ ClearSearchInput
    \/ HandleSearchInput
    \/ ClearErrorTimer
    \/ AddLinkageNew
    \/ RemovePlayerNew

Next ==
    \/ SelectPlayer
    \/ ClearSearchInput
    \/ HandleSearchInput
    \/ ClearErrorTimer
    \/ AddLinkageOld
    \/ RemovePlayerOld
    \/ AddLinkageNew
    \/ RemovePlayerNew

\* both clients, one per behaviour
Spec == Init /\ [][Next]_vars

\* the old client alone
SpecOld == InitOld /\ [][NextOld]_vars

\* the new client alone
SpecNew == InitNew /\ [][NextNew]_vars

\* renderPlayerChain: the card of playerId is in the chain and is not a target
IsGuessCard(playerId) ==
    \E k \in 1..Len(playerChain) :
        playerChain[k].id = playerId /\ ~playerChain[k].isTarget

\* the new client when no guess is ever removed
NextNewInsertions ==
    \/ SelectPlayer
    \/ ClearSearchInput
    \/ HandleSearchInput
    \/ ClearErrorTimer
    \/ AddLinkageNew

SpecNewInsertions == InitNew /\ [][NextNewInsertions]_vars

\* removePlayer as the page offers it: the remove button of a guess card
RemoveGuessOld ==
    /\ client = "old"
    /\ \E playerId \in PlayerIds :
           /\ IsGuessCard(playerId)
           /\ \E s \in {removePlayerOld(Session, playerId)} : Becomes(s)

RemoveGuessNew ==
    /\ client = "new"
    /\ \E playerId \in PlayerIds :
           /\ IsGuessCard(playerId)
           /\ \E s \in {removePlayerNew(Session, playerId)} : Becomes(s)

\* both clients when removePlayer is called with the ids of guesses only
NextGuessRemovals ==
    \/ SelectPlayer
    \/ ClearSearchInput
    \/ HandleSearchInput
    \/ ClearErrorTimer
    \/ AddLinkageOld
    \/ AddLinkageNew
    \/ RemoveGuessOld
    \/ RemoveGuessNew

SpecGuessRemovals == Init /\ [][NextGuessRemovals]_vars

\* updateAddButton(): the add button is enabled
addButtonEnabled == selectedPlayer # NULL /\ ~gameComplete /\ ~gameFailed

\* Old client: a click on the add button
ClickAddOld == addButtonEnabled /\ AddLinkageOld

\* New client: a click on the add button
ClickAddNew == addButtonEnabled /\ AddLinkageNew

\* both clients as the page drives them: addLinkage by the enabled add button,
\* removePlayer by the remove button of a guess card
NextPage ==
    \/ SelectPlayer
    \/ ClearSearchInput
    \/ HandleSearchInput
    \/ ClearErrorTimer
    \/ ClickAddOld
    \/ ClickAddNew
    \/ RemoveGuessOld
    \/ RemoveGuessNew

SpecPage == Init /\ [][NextPage]_vars

\* The dates loadRandomDay draws: the 60 days from 2025-08-16, all of them
\* before today.
RandomDates == Dates \ {Today}

\* The graphs of the sessions with puzzle loads: player 3 is the only player
\* with links, to no target, to one or to both. The puzzles of the dates and
\* difficulties take the two targets in both orders, so the link to one target
\* is the link to player 1.
LoadGraphs == {{}, {{1, 3}}, {{1, 3}, {2, 3}}}

InitLoads == Init /\ \E edges \in LoadGraphs : connections = ConnectionsOf(edges)

\* New client: a change event of the difficulty toggle
HandleDifficultyChange ==
    /\ client = "new"
    /\ \E s \in {handleDifficultyChange(Session)} : Becomes(s)

\* Old client: a click on the debug button
LoadRandomDayOld ==
    /\ client = "old"
    /\ \E randomDate \in RandomDates :
           \E s \in {loadRandomDayOld(Session, randomDate)} : Becomes(s)

\* New client: a call of loadRandomDay()
LoadRandomDayNew ==
    /\ client = "new"
    /\ \E randomDate \in RandomDates :
           \E s \in {loadRandomDayNew(Session, randomDate)} : Becomes(s)

\* both clients with the puzzle loads
NextLoads ==
    \/ SelectPlayer
    \/ ClearSearchInput
    \/ HandleSearchInput
    \/ ClearErrorTimer
    \/ AddLinkageOld
    \/ AddLinkageNew
    \/ RemoveGuessOld
    \/ RemoveGuessNew
    \/ HandleDifficultyChange
    \/ LoadRandomDayOld
    \/ LoadRandomDayNew

SpecLoads == InitLoads /\ [][NextLoads]_vars

----------------------------------------------------------------------------
\* The new client with its asynchronous loads: handleDifficultyChange() returns
\* when loadGameData() reaches its first await; the rest of loadGameData() runs
\* when its fetches are answered, which may be after later events and after
\* the fetches of a load started later.

\* the most loads in flight at a time
MaxPendingLoads == 2

\* the sequence seq without its element i
RemoveAt(seq, i) == SubSeq(seq, 1, i - 1) \o SubSeq(seq, i + 1, Len(seq))

InitAsync == InitLoads /\ client = "new"

\* a change event of the difficulty toggle
StartDifficultyChange ==
    /\ client = "new"
    /\ Len(pendingLoads) < MaxPendingLoads
    /\ \E s \in {switchDifficulty(Session)} :
           BecomesLoading(s, Append(pendingLoads, fetchPuzzle(s)))

\* the fetches of one of the loads in flight are answered
FinishLoad ==
    /\ client = "new"
    /\ \E i \in 1..Len(pendingLoads) :
           \E s \in {continueLoadGameData(Session, pendingLoads[i])} :
               BecomesLoading(s, RemoveAt(pendingLoads, i))

NextAsync ==
    \/ SelectPlayer
    \/ ClearSearchInput
    \/ HandleSearchInput
    \/ ClearErrorTimer
    \/ ClickAddNew
    \/ RemoveGuessNew
    \/ StartDifficultyChange
    \/ FinishLoad

SpecAsync == InitAsync /\ [][NextAsync]_vars

\* the new client on one puzzle date, as the page drives it, each load
\* finishing before the next event
NextModes ==
    \/ SelectPlayer
    \/ ClearSearchInput
    \/ HandleSearchInput
    \/ ClearErrorTimer
    \/ ClickAddNew
    \/ RemoveGuessNew
    \/ HandleDifficultyChange

SpecModes == InitNew /\ [][NextModes]_vars

----------------------------------------------------------------------------
\* The pipeline runs offline, without a session

NoSession ==
    /\ client = "none"
    /\ connections = <<>>
    /\ targetPlayers = [start |-> NULL, end |-> NULL]
    /\ playerChain = <<>>
    /\ selectedPlayer = NULL
    /\ gameComplete = FALSE
    /\ gameFailed = FALSE
    /\ wrongGuesses = 0
    /\ attemptsRemaining = maxWrongGuesses
    /\ attemptsByMode = [d \in Difficulties |-> maxWrongGuesses]
    /\ currentDifficulty = "easy"
    /\ currentPuzzleDate = NULL
    /\ localStorage = [key \in StorageKeys |-> <<>>]
    /\ modalSolution = <<>>
    /\ errorMessage = "none"
    /\ pendingLoads = <<>>

\* the grand-total minutes of a player
TotalMinutes == {100, 1000}

\* the accumulated shared minutes of a pair
SharedMinutes == {4, 40}

\* the team-stint lists of a player
Stints == [team : 1..NumTeams, season : 1..NumSeasons]

StintLists == UNION {[1..n -> Stints] : n \in 0..MaxStints}

\* Graph Builder input: a reference table and one SharedIceRecord per pair
\* that ever overlapped
InitGraphBuilder ==
    /\ NoSession
    /\ players \in [PipelinePlayers ->
                       [position : Positions, totalMinutes : TotalMinutes, stints : {<<>>}]]
    /\ \E pairs \in SUBSET PipelinePairs : sharedIceRecords \in [pairs -> SharedMinutes]
    /\ processedPairs = {}
    /\ linkageGraph = {}
    /\ oracleResult = <<>>

\* the builder handles the SharedIceRecord of one more pair
BuildLinkage ==
    /\ \E pair \in (DOMAIN sharedIceRecords) \ processedPairs :
           /\ processedPairs' = processedPairs \cup {pair}
           /\ linkageGraph' = linkageGraph \cup buildEdges(pair)
    /\ UNCHANGED <<players, sharedIceRecords, oracleResult>>
    /\ UNCHANGED sessionVars

SpecGraphBuilder == InitGraphBuilder /\ [][BuildLinkage]_vars

\* Teammate Oracle input: a reference table with the stint lists
InitTeammates ==
    /\ NoSession
    /\ players \in [PipelinePlayers ->
                       [position : {"C"}, totalMinutes : {100}, stints : StintLists]]
    /\ sharedIceRecords = <<>>
    /\ processedPairs = {}
    /\ linkageGraph = {}
    /\ oracleResult = <<>>

\* a caller asks the oracle about two players
AskOracle ==
    /\ \E a, b \in PipelinePlayers :
           /\ a # b
           /\ oracleResult' = [a |-> a, b |-> b, teammates |-> wereEverTeammates(a, b)]
    /\ UNCHANGED <<players, sharedIceRecords, processedPairs, linkageGraph>>
    /\ UNCHANGED sessionVars

SpecTeammates == InitTeammates /\ [][AskOracle]_vars

----------------------------------------------------------------------------
\* Vocabulary of the properties

\* the session is Open: neither Complete nor Failed
Open == ~gameComplete /\ ~gameFailed

\* the attempts left: maxWrongGuesses - wrongGuesses (old), attemptsRemaining (new)
attemptsLeft ==
    IF client = "old" THEN maxWrongGuesses - wrongGuesses ELSE attemptsRemaining

\* the gaps of a chain: the indices i whose nodes i and i+1 are not linked
Gaps(chain) ==
    {i \in 0..(Len(chain) - 2) :
        ~arePlayersLinked(At(chain, i).id, At(chain, i + 1).id)}

\* the frontier of a chain: the ids of the nodes adjacent to a gap
Frontier(chain) ==
    {At(chain, i).id : i \in Gaps(chain)} \cup {At(chain, i + 1).id : i \in Gaps(chain)}

ChainIds(chain) == {chain[k].id : k \in 1..Len(chain)}

\* addLinkage() and removePlayer(playerId) of the client of the session
addLinkage(s) == IF client = "old" THEN addLinkageOld(s) ELSE addLinkageNew(s)

removePlayer(s, playerId) ==
    IF client = "old" THEN removePlayerOld(s, playerId) ELSE removePlayerNew(s, playerId)

\* the attempts left in the session fields s
attemptsLeftIn(s) ==
    IF client = "old" THEN maxWrongGuesses - s.wrongGuesses ELSE s.attemptsRemaining

\* the chain that holds the players ids in this order, the targets tagged
Chain(ids) ==
    [k \in 1..Len(ids) |->
        [id |-> ids[k],
         isTarget |-> ids[k] \in {targetPlayers.start, targetPlayers.end}]]

\* playerId is a guess of the chain
IsGuess(chain, playerId) ==
    \E k \in 1..Len(chain) : chain[k].id = playerId /\ ~chain[k].isTarget

\* the elements of the chain at the indices of keep, in chain order
KeepIndices(chain, keep) ==
    LET idx == SortedSeq(keep) IN [k \in 1..Len(idx) |-> At(chain, idx[k])]

\* the selected player is a new guess that is linked to no frontier node
UnlinkedGuess ==
    /\ selectedPlayer # NULL
    /\ ~InChain(playerChain, selectedPlayer)
    /\ Cardinality(Gaps(playerChain)) = 1
    /\ \A f \in Frontier(playerChain) : ~arePlayersLinked(selectedPlayer, f)

\* ... and it is linked to some other member of the chain
LinkedToInnerMember ==
    \E m \in ChainIds(playerChain) \ Frontier(playerChain) :
        arePlayersLinked(selectedPlayer, m)

----------------------------------------------------------------------------
\* C1 (old client): in every Open state, a guess that is not in the chain and
\* is linked to neither node adjacent to the gap is not inserted by addLinkage
\* (the chain stays as it is) and wrongGuesses grows by exactly one, also when
\* the guess is linked to a chain member that is not at the gap.
C1_UnlinkedGuessCountedOld ==
    (client = "old" /\ Open /\ UnlinkedGuess)
        => LET after == addLinkageOld(Session)
           IN /\ after.playerChain = playerChain
              /\ after.wrongGuesses = wrongGuesses + 1

\* a chain of four or more nodes has just rejected a guess that is linked to
\* one of its inner members only
C1_Witness ==
    /\ client = "old" /\ Open
    /\ Len(playerChain) >= 4
    /\ UnlinkedGuess /\ LinkedToInnerMember
    /\ errorMessage = "mustConnect"
    /\ wrongGuesses >= 1

----------------------------------------------------------------------------
\* C2 (new client): a guess that is linked to neither frontier node never
\* changes the chain length and always costs exactly one attempt, also when it
\* is linked to another member of the chain.
C2_UnlinkedGuessCountedNew ==
    (client = "new" /\ Open /\ UnlinkedGuess)
        => LET after == addLinkageNew(Session)
           IN /\ Len(after.playerChain) = Len(playerChain)
              /\ after.attemptsRemaining = attemptsRemaining - 1

----------------------------------------------------------------------------
\* C3 (old client): after any sequence of addLinkage and removePlayer calls the
\* chain has at most one gap: it is a fully linked run from the start target
\* followed by a fully linked run that ends at the end target.
C3_AtMostOneGapOld ==
    client = "old"
        => /\ Cardinality(Gaps(playerChain)) <= 1
           /\ Len(playerChain) >= 2
           /\ At(playerChain, 0).id = targetPlayers.start
           /\ At(playerChain, Len(playerChain) - 1).id = targetPlayers.end
           /\ \E k \in 1..(Len(playerChain) - 1) :
                  /\ allLinked(SubSeq(playerChain, 1, k))
                  /\ allLinked(SubSeq(playerChain, k + 1, Len(playerChain)))

\* both runs hold a guess and the gap lies between them
C3_Witness ==
    /\ client = "old"
    /\ Len(playerChain) = 4
    /\ Gaps(playerChain) = {1}

----------------------------------------------------------------------------
\* C4 (new client): after any sequence of accepted insertions the chain has at
\* most one gap.
C4_AtMostOneGapNew ==
    client = "new" => Cardinality(Gaps(playerChain)) <= 1

----------------------------------------------------------------------------
\* The indices that a cascading removal at index i takes out of a chain whose
\* gap is at index g: i itself and all indices between i and the gap on i's run.
CascadeIndices(i, g) ==
    IF i <= g THEN i..g ELSE (g + 1)..i

\* C5 (old client): in an Open chain with one gap, removePlayer on the guess at
\* index i leaves exactly the old chain without that guess and without the
\* guesses between it and the gap on its run; the targets and the opposite run
\* stay, in their order.
C5_CascadeRemovalOld ==
    \A playerId \in PlayerIds :
        (/\ client = "old" /\ Open
         /\ Cardinality(Gaps(playerChain)) = 1
         /\ IsGuess(playerChain, playerId))
            => LET i == FindIndex(playerChain, playerId)
                   g == CHOOSE x \in Gaps(playerChain) : TRUE
               IN removePlayerOld(Session, playerId).playerChain =
                      KeepIndices(playerChain,
                                  (0..(Len(playerChain) - 1)) \ CascadeIndices(i, g))

\* a removal that cascades: it takes out two guesses or more while a guess of
\* the opposite run stays
C5_Witness ==
    /\ client = "old" /\ Open
    /\ Cardinality(Gaps(playerChain)) = 1
    /\ \E playerId \in PlayerIds :
           /\ IsGuess(playerChain, playerId)
           /\ LET after == removePlayerOld(Session, playerId).playerChain
              IN Len(after) = Len(playerChain) - 2 /\ Len(after) = 3

----------------------------------------------------------------------------
\* C6 (new client): in an Open chain with one gap, removePlayer on the guess at
\* index i removes every guess between index i and the gap on the same run,
\* whatever those guesses are linked to, and removes no node of the other run.
C6_CascadeRemovalNew ==
    \A playerId \in PlayerIds :
        (/\ client = "new" /\ Open
         /\ Cardinality(Gaps(playerChain)) = 1
         /\ IsGuess(playerChain, playerId))
            => LET i == FindIndex(playerChain, playerId)
                   g == CHOOSE x \in Gaps(playerChain) : TRUE
                   after == ChainIds(removePlayerNew(Session, playerId).playerChain)
               IN \A j \in 0..(Len(playerChain) - 1) :
                      IF j \in CascadeIndices(i, g)
                      THEN At(playerChain, j).id \notin after
                      ELSE (j <= g) # (i <= g) => At(playerChain, j).id \in after

----------------------------------------------------------------------------
\* The worked example: start A = 1, end D = 2, B = 3, C = 4, E = 5, with the
\* links A-B, B-C and C-D only, in a fresh session with three attempts.
ScenarioStart ==
    /\ connections = ConnectionsOf({{1, 3}, {3, 4}, {4, 2}})
    /\ playerChain = Chain(<<1, 2>>)
    /\ Open
    /\ attemptsLeft = 3

\* the session after selecting playerId and pressing add
guess(s, playerId) == addLinkage(selectPlayer(s, playerId))

\* C7 (both clients): from [A, D] with three attempts, the guess B (linked to A
\* only) gives [A, B, D] with the gap between B and D; the guess E (linked to
\* nobody) is rejected, the chain stays and two attempts are left; the guess C
\* (linked to B and D) gives [A, B, C, D] and the session is Complete.
C7_WorkedExample ==
    ScenarioStart
        => LET afterB == guess(Session, 3)
               afterE == guess(afterB, 5)
               afterC == guess(afterE, 4)
           IN /\ afterB.playerChain = Chain(<<1, 3, 2>>)
              /\ Gaps(afterB.playerChain) = {1}
              /\ attemptsLeftIn(afterB) = 3
              /\ afterE.playerChain = Chain(<<1, 3, 2>>)
              /\ attemptsLeftIn(afterE) = 2
              /\ ~afterE.gameComplete /\ ~afterE.gameFailed
              /\ afterC.playerChain = Chain(<<1, 3, 4, 2>>)
              /\ attemptsLeftIn(afterC) = 2
              /\ afterC.gameComplete /\ ~afterC.gameFailed

\* the session at the end of the worked example
C7_Witness ==
    /\ connections = ConnectionsOf({{1, 3}, {3, 4}, {4, 2}})
    /\ playerChain = Chain(<<1, 3, 4, 2>>)
    /\ gameComplete /\ ~gameFailed
    /\ attemptsLeft = 2
    /\ client = "new"

----------------------------------------------------------------------------
\* The Complete chain [A, B, C, D] of the worked example.
ScenarioComplete ==
    /\ connections = ConnectionsOf({{1, 3}, {3, 4}, {4, 2}})
    /\ playerChain = Chain(<<1, 3, 4, 2>>)
    /\ gameComplete

\* C8 as stated: from the Complete chain [A, B, C, D], removing B cascades,
\* removes C too and leaves [A, D].
C8_RemoveFromCompleteCascades ==
    ScenarioComplete => removePlayer(Session, 3).playerChain = Chain(<<1, 2>>)

\* C8 (both clients): from the Complete chain [A, B, C, D], removePlayer(B) is
\* ignored: the chain stays [A, B, C, D], the session stays Complete and no
\* other field changes.
C8_RemoveFromCompleteIgnored ==
    ScenarioComplete => removePlayer(Session, 3) = Session

\* the Complete chain of the worked example, reached with a wrong guess made
C8_Witness ==
    /\ ScenarioComplete
    /\ client = "old"
    /\ wrongGuesses = 1

----------------------------------------------------------------------------
\* the session fields s have the chain, the counters and the flags of the
\* current session
SameSession(s) ==
    /\ s.playerChain = playerChain
    /\ s.wrongGuesses = wrongGuesses
    /\ s.attemptsRemaining = attemptsRemaining
    /\ s.gameComplete = gameComplete
    /\ s.gameFailed = gameFailed

\* C9 (both clients): in a Complete or Failed session no addLinkage and no
\* removePlayer call changes the chain, the attempt counters or the flags.
C9_TerminalAbsorbing ==
    (gameComplete \/ gameFailed)
        => /\ SameSession(addLinkage(Session))
           /\ \A playerId \in PlayerIds : SameSession(removePlayer(Session, playerId))

----------------------------------------------------------------------------
\* the players that can be reached from the players of S over links
RECURSIVE ReachableFrom(_)
ReachableFrom(S) ==
    LET T == S \cup {q \in PlayerIds : \E p \in S : arePlayersLinked(p, q)}
    IN IF T = S THEN S ELSE ReachableFrom(T)

AnchorsConnected == targetPlayers.end \in ReachableFrom({targetPlayers.start})

\* path is a non-empty walk over links from the start target to the end target
IsAnchorPath(path) ==
    /\ Len(path) >= 1
    /\ path[1] = targetPlayers.start
    /\ path[Len(path)] = targetPlayers.end
    /\ \A k \in 1..(Len(path) - 1) : arePlayersLinked(path[k], path[k + 1])

\* C10 (both clients): when a counted guess uses up the budget the session is
\* Failed in that same step, and the path shown on failure is, when the targets
\* are connected, a non-empty path from the start target to the end target.
C10_ExhaustionFailsAndReveals ==
    /\ attemptsLeft <= 0 => gameFailed
    /\ (gameFailed /\ AnchorsConnected) => IsAnchorPath(modalSolution)
    /\ LET after == addLinkage(Session)
       IN (attemptsLeftIn(after) < attemptsLeft /\ attemptsLeftIn(after) <= 0)
              => /\ after.gameFailed
                 /\ AnchorsConnected => IsAnchorPath(after.modalSolution)

\* a session that failed on its last attempt and shows a path with a guess
C10_Witness ==
    /\ gameFailed
    /\ attemptsLeft = 0
    /\ AnchorsConnected
    /\ Len(modalSolution) >= 3

----------------------------------------------------------------------------
\* C11 (both clients): in every state, addLinkage with a selected player that
\* is already in the chain (a guess or a target) is rejected as a duplicate:
\* the chain, the attempt counters and the complete/failed flags stay as they
\* were before the call.
C11_DuplicateRejected ==
    (selectedPlayer # NULL /\ InChain(playerChain, selectedPlayer))
        => LET after == addLinkage(Session)
           IN /\ SameSession(after)
              /\ ~gameComplete => after.errorMessage = "duplicate"

\* a guess of the chain was selected again and rejected as a duplicate
C11_Witness ==
    /\ selectedPlayer # NULL
    /\ IsGuess(playerChain, selectedPlayer)
    /\ errorMessage = "duplicate"
    /\ Open

----------------------------------------------------------------------------
\* The number of links on a shortest walk from the players of frontier to b,
\* computed level by level over sets of players; -1 when b cannot be reached.
RECURSIVE LinkDistance(_, _, _, _)
LinkDistance(frontier, seen, b, d) ==
    IF b \in frontier THEN d
    ELSE LET next == {q \in PlayerIds \ seen : \E p \in frontier : arePlayersLinked(p, q)}
         IN IF next = {} THEN -1 ELSE LinkDistance(next, seen \cup next, b, d + 1)

\* path is a walk over links from a to b that repeats no player and has the
\* least number of nodes of all such walks
IsShortestPath(path, a, b) ==
    /\ Len(path) >= 1
    /\ path[1] = a
    /\ path[Len(path)] = b
    /\ \A k \in 1..(Len(path) - 1) : arePlayersLinked(path[k], path[k + 1])
    /\ \A j, k \in 1..Len(path) : j # k => path[j] # path[k]
    /\ Len(path) = LinkDistance({a}, {a}, b, 0) + 1

\* C12 (both clients): whenever the end target can be reached from the start
\* target, findShortestSolution returns a path from the start target to the
\* end target whose consecutive players are linked, that repeats no player and
\* has the least node count; the search does so for every pair of players
\* taken as targets.
C12_ShortestSolution ==
    /\ AnchorsConnected
           => /\ IsShortestPath(findShortestSolutionNew,
                                targetPlayers.start, targetPlayers.end)
              /\ IsShortestPath(findShortestSolutionOld,
                                targetPlayers.start, targetPlayers.end)
    /\ \A a, b \in PlayerIds :
           b \in ReachableFrom({a}) => IsShortestPath(bfs(<< <<a>> >>, {a}, b), a, b)

\* a failed session whose shown solution has four players, in a graph where
\* the search also meets a longer way to the end target
C12_Witness ==
    /\ gameFailed
    /\ Len(modalSolution) = 4
    /\ modalSolution = findShortestSolutionNew
    /\ modalSolution = findShortestSolutionOld
    /\ Cardinality(ReachableFrom({targetPlayers.start})) = NumPlayers

----------------------------------------------------------------------------
\* the call of findShortestSolution made by showFailureModal: the session
\* fields when the modal has been filled again
revealSolution(s) ==
    [s EXCEPT !.modalSolution =
                  showFailureModal(IF client = "old" THEN findShortestSolutionOld
                                   ELSE findShortestSolutionNew)]

----------------------------------------------------------------------------
\* the selected player is a new guess that is linked to both nodes next to
\* the single gap of the chain
LinkedToBothFrontierNodes ==
    /\ selectedPlayer # NULL
    /\ ~InChain(playerChain, selectedPlayer)
    /\ Cardinality(Gaps(playerChain)) = 1
    /\ \A f \in Frontier(playerChain) : arePlayersLinked(selectedPlayer, f)

\* C14 (both clients): in an Open state with one gap, a guess linked to both
\* frontier nodes is inserted between them, the session is Complete when the
\* call returns and no attempt is consumed.
C14_BothFrontiersCloseGap ==
    (Open /\ LinkedToBothFrontierNodes)
        => LET g == CHOOSE x \in Gaps(playerChain) : TRUE
               after == addLinkage(Session)
           IN /\ after.playerChain =
                     Splice(playerChain, g + 1, [id |-> selectedPlayer, isTarget |-> FALSE])
              /\ after.gameComplete
              /\ attemptsLeftIn(after) = attemptsLeft

\* C14 for the sessions of the old client alone
C14_BothFrontiersCloseGapOld ==
    client = "old" => C14_BothFrontiersCloseGap

----------------------------------------------------------------------------
\* the chain has no gap (and, in the new client, holds a guess)
GapFree(chain) ==
    /\ Gaps(chain) = {}
    /\ client = "new" => \E k \in 1..Len(chain) : ~chain[k].isTarget

\* the session fields s are marked Complete exactly when their chain is gap-free
CompletionExact(s) == s.gameComplete <=> GapFree(s.playerChain)

\* C15 (both clients): when an addLinkage or a removePlayer call returns, the
\* session is Complete if and only if every adjacent pair of the chain is
\* linked (and, in the new client, the chain holds a guess): no chain with a
\* gap is marked Complete and no gap-free chain is left Open.
C15_CompletionExact ==
    /\ CompletionExact(Session)
    /\ CompletionExact(addLinkage(Session))
    /\ \A playerId \in PlayerIds : CompletionExact(removePlayer(Session, playerId))

\* an Open session of the old client in which a removal closes the gap: the
\* guess that stays is linked to both targets
C15_Witness ==
    /\ client = "old" /\ Open
    /\ Len(playerChain) = 4
    /\ \E playerId \in PlayerIds :
           LET after == removePlayer(Session, playerId)
           IN Len(after.playerChain) = 3 /\ after.gameComplete

----------------------------------------------------------------------------
\* C16 (both clients): removePlayer acts only while the session is Open: called
\* in a Complete or in a Failed session, with any player id, it leaves the
\* chain, the attempt counters and the flags unchanged.
C16_RemoveOnlyWhileOpen ==
    ~Open => \A playerId \in PlayerIds : SameSession(removePlayer(Session, playerId))

\* a Failed session whose chain holds a guess that could be removed
C16_Witness ==
    /\ gameFailed /\ ~gameComplete
    /\ attemptsLeft = 0
    /\ \E playerId \in PlayerIds : IsGuess(playerChain, playerId)

----------------------------------------------------------------------------
\* C17 (both clients): removePlayer never removes a target: in an Open state,
\* removePlayer with the id of the start or of the end target leaves the
\* chain unchanged.
C17_TargetsNotRemovable ==
    Open => \A playerId \in {targetPlayers.start, targetPlayers.end} :
                removePlayer(Session, playerId).playerChain = playerChain

\* C17 for the sessions of the old client alone
C17_TargetsNotRemovableOld ==
    client = "old" => C17_TargetsNotRemovable

----------------------------------------------------------------------------
\* C18 (both clients): after any sequence of addLinkage calls and of
\* removePlayer calls on guess ids, the first element of the chain is the
\* start target, the last element is the end target, these two are the only
\* elements tagged as targets and every inserted element is tagged as a guess.
C18_TargetsAtTheEnds ==
    /\ Len(playerChain) >= 2
    /\ At(playerChain, 0) = [id |-> targetPlayers.start, isTarget |-> TRUE]
    /\ At(playerChain, Len(playerChain) - 1) = [id |-> targetPlayers.end, isTarget |-> TRUE]
    /\ \A i \in 1..(Len(playerChain) - 2) :
           /\ ~At(playerChain, i).isTarget
           /\ At(playerChain, i).id \notin {targetPlayers.start, targetPlayers.end}

\* a chain of the new client with three guesses between the targets and two
\* gaps, as saved by the last call
C18_Witness ==
    /\ client = "new"
    /\ Len(playerChain) = 5
    /\ localStorage[storageKey(Today, currentDifficulty)] =
           savedState(playerChain, attemptsRemaining, gameComplete, gameFailed)
    /\ Cardinality(Gaps(playerChain)) = 2

----------------------------------------------------------------------------
----------------------------------------------------------------------------
\* the session s is a fresh Open session of the puzzle it has loaded
Fresh(s) ==
    /\ s.playerChain = initialChain(s.targetPlayers.start, s.targetPlayers.end)
    /\ attemptsLeftIn(s) = 3
    /\ ~s.gameComplete
    /\ ~s.gameFailed

\* no state is saved for the puzzle of a date in a difficulty
NoSavedState(date, difficulty) == localStorage[storageKey(date, difficulty)] = <<>>

\* Old client: in every state, loadRandomDay yields a fresh Open session.
C20_LoadRandomDayOldFresh ==
    client = "old" =>
        \A randomDate \in RandomDates : Fresh(loadRandomDayOld(Session, randomDate))

\* New client: in every state, loadRandomDay of a date without saved state in
\* the current difficulty yields a fresh Open session.
C20_LoadRandomDayNewFresh ==
    client = "new" =>
        \A randomDate \in RandomDates :
            NoSavedState(randomDate, currentDifficulty)
                => Fresh(loadRandomDayNew(Session, randomDate))

\* New client: in every state, switching to a difficulty without saved state
\* for the current date yields a fresh Open session.
C20_DifficultyChangeFresh ==
    (client = "new" /\ NoSavedState(puzzleDateOf(Session), toggled(currentDifficulty)))
        => Fresh(handleDifficultyChange(Session))

\* C20: every puzzle load for which no saved state exists (loadRandomDay in
\* either client, a difficulty switch in the new client) yields a fresh Open
\* session, whatever state the session before was in: the chain is the two
\* targets of the loaded puzzle, 3 attempts remain, and the session is neither
\* Complete nor Failed.
C20_LoadYieldsFreshSession ==
    /\ C20_LoadRandomDayOldFresh
    /\ C20_LoadRandomDayNewFresh
    /\ C20_DifficultyChangeFresh

----------------------------------------------------------------------------
\* the builder has handled the pair and derived no edge from its record
Rejected(pair) ==
    pair \in processedPairs /\ \A edge \in linkageGraph : edge.pair # pair

\* C21: the linkage graph holds no edge that involves a goalie and no edge
\* between players of different position categories: forwards are linked only
\* to forwards, defensemen only to defensemen.
C21_NoGoalieNoCrossPosition ==
    \A edge \in linkageGraph : \A x, y \in edge.pair :
        /\ players[x].position # "G"
        /\ players[x].position \in {"C", "L", "R"} <=> players[y].position \in {"C", "L", "R"}
        /\ players[x].position = "D" <=> players[y].position = "D"

\* C21 witness: every pair has a record that clears the threshold and all are
\* handled; a centre and a wing are linked, and the two records of the goalie
\* gave no edge.
C21_Witness ==
    /\ processedPairs = PipelinePairs
    /\ DOMAIN sharedIceRecords = PipelinePairs
    /\ \A pair \in PipelinePairs : sharedIceRecords[pair] = 40
    /\ \A x \in PipelinePlayers : players[x].totalMinutes = 100
    /\ \E edge \in linkageGraph :
           {players[x].position : x \in edge.pair} = {"C", "L"}
    /\ \E x \in PipelinePlayers :
           /\ players[x].position = "G"
           /\ \A y \in PipelinePlayers \ {x} : Rejected({x, y})

----------------------------------------------------------------------------
\* some (team id, season id) pair occurs in the stint lists of both players
SharedTeamSeason(a, b) ==
    \E i \in DOMAIN players[a].stints : \E j \in DOMAIN players[b].stints :
        /\ players[a].stints[i].team = players[b].stints[j].team
        /\ players[a].stints[i].season = players[b].stints[j].season

\* the two players played for a same team, but never in a same season
SameTeamOtherSeasons(a, b) ==
    /\ \E i \in DOMAIN players[a].stints : \E j \in DOMAIN players[b].stints :
           players[a].stints[i].team = players[b].stints[j].team
    /\ ~SharedTeamSeason(a, b)

\* C22: wereEverTeammates(A, B) is true iff some (team id, season id) pair
\* occurs in the stint lists of both A and B; players of a same team in
\* different seasons only are not teammates; the result is symmetric.
C22_TeammatesShareTeamSeason ==
    /\ \A a, b \in DOMAIN players :
           /\ wereEverTeammates(a, b) <=> SharedTeamSeason(a, b)
           /\ SameTeamOtherSeasons(a, b) => ~wereEverTeammates(a, b)
           /\ wereEverTeammates(a, b) <=> wereEverTeammates(b, a)
    /\ oracleResult # <<>> =>
           (oracleResult.teammates <=> SharedTeamSeason(oracleResult.a, oracleResult.b))

\* C22 witness: the oracle has answered no for two players with two stints
\* each who played for a same team in different seasons, while the asked
\* player is a teammate of the third player.
C22_Witness ==
    /\ oracleResult # <<>>
    /\ ~oracleResult.teammates
    /\ SameTeamOtherSeasons(oracleResult.a, oracleResult.b)
    /\ Len(players[oracleResult.a].stints) = MaxStints
    /\ Len(players[oracleResult.b].stints) = MaxStints
    /\ \E c \in PipelinePlayers \ {oracleResult.a, oracleResult.b} :
           wereEverTeammates(oracleResult.a, c)

----------------------------------------------------------------------------
\* C23 (both clients): in every state reached by addLinkage and removePlayer
\* calls, calls in a Failed session included, between 0 and 3 attempts remain
\* (old client: wrongGuesses never exceeds maxWrongGuesses; new client:
\* attemptsRemaining is never negative).
C23_AttemptsWithinBounds == attemptsLeft \in 0..3

\* New client: attemptsRemaining stays between 0 and 3.
C23_AttemptsWithinBoundsNew == client = "new" => attemptsRemaining \in 0..3

----------------------------------------------------------------------------
\* C24 (both clients): after every operation the session is Failed iff no
\* attempt remains, and the chain of a Failed session still has a gap.
C24_FailedIffExhausted ==
    /\ gameFailed <=> attemptsLeft = 0
    /\ gameFailed => Gaps(playerChain) # {}

----------------------------------------------------------------------------
\* the chain `after` is the chain `before` with the guess of playerId put in
\* as its k-th node, next to a node the player is linked to
InsertedNextToLink(before, after, playerId, k) ==
    /\ Len(after) = Len(before) + 1
    /\ after[k] = [id |-> playerId, isTarget |-> FALSE]
    /\ \A i \in 1..Len(before) : before[i] = after[IF i < k THEN i ELSE i + 1]
    /\ \/ k > 1 /\ arePlayersLinked(playerId, after[k - 1].id)
       \/ k < Len(after) /\ arePlayersLinked(playerId, after[k + 1].id)

\* addLinkage accepts the selected player
Accepted == selectedPlayer # NULL /\ addLinkage(Session).playerChain # playerChain

\* C25 (both clients): an accepted guess makes the chain grow by one node,
\* tagged as a guess and directly next to a node it is linked to; the nodes
\* present before keep their order and the attempt counter is unchanged.
C25_AcceptedGuessFrame ==
    Accepted =>
        LET after == addLinkage(Session)
        IN /\ \E k \in 1..Len(after.playerChain) :
                  InsertedNextToLink(playerChain, after.playerChain, selectedPlayer, k)
           /\ attemptsLeftIn(after) = attemptsLeft

\* C25 witness: a guess is accepted into a chain of four nodes with a used
\* attempt, between two guesses, one of which it is not linked to.
C25_Witness ==
    /\ Accepted
    /\ Len(playerChain) = 4
    /\ attemptsLeft < 3
    /\ LET after == addLinkage(Session).playerChain
       IN /\ after[3].id = selectedPlayer
          /\ ~arePlayersLinked(selectedPlayer, after[2].id)
          /\ arePlayersLinked(selectedPlayer, after[4].id)

----------------------------------------------------------------------------
\* the sequence holds no element twice
NoRepeats(seq) == \A i, j \in 1..Len(seq) : seq[i] = seq[j] => i = j

\* C26: findShortestSolution ends on every adjacency table, each player being
\* enqueued at most once (so the loop runs at most once per player), and it
\* returns null (here <<>>) iff the end target cannot be reached from the
\* start target. Checked for the targets of the session and for every other
\* pair of players as targets.
C26_SearchEndsNullIffUnreachable ==
    /\ findShortestSolutionNew = <<>> <=> ~AnchorsConnected
    /\ findShortestSolutionOld = <<>> <=> ~AnchorsConnected
    /\ \A a, b \in PlayerIds :
           LET run == bfsLog(<< <<a>> >>, {a}, b, <<a>>, 0)
           IN /\ run.path = bfs(<< <<a>> >>, {a}, b)
              /\ NoRepeats(run.pushed)
              /\ run.shifts <= Len(run.pushed)
              /\ run.path = <<>> <=> b \notin ReachableFrom({a})

\* C26 witness: a Failed session whose modal shows no solution: the start
\* target lies on a cycle of three players and no path joins the targets.
C26_Witness ==
    /\ gameFailed
    /\ modalSolution = <<>>
    /\ findShortestSolutionOld = <<>>
    /\ \E p, q \in PlayerIds :
           /\ arePlayersLinked(targetPlayers.start, p)
           /\ arePlayersLinked(p, q)
           /\ arePlayersLinked(q, targetPlayers.start)

----------------------------------------------------------------------------
\* C27 (both clients): in every state reached by addLinkage and removePlayer
\* calls the session is not both Complete and Failed.
C27_NeverCompleteAndFailed == ~(gameComplete /\ gameFailed)

----------------------------------------------------------------------------
\* the path that findShortestSolution returns in the client of the session
shortestSolution ==
    IF client = "old" THEN findShortestSolutionOld ELSE findShortestSolutionNew

\* the ids of a chain, in chain order
IdsOf(chain) == [k \in 1..Len(chain) |-> chain[k].id]

\* Guessing the interior players path[k], path[k+1], ... of a path one by one
\* from the session s: every guess is accepted (the chain grows by the
\* guessed player) and consumes no attempt.
RECURSIVE AllAccepted(_, _, _)
AllAccepted(s, path, k) ==
    IF k >= Len(path) THEN TRUE
    ELSE LET after == guess(s, path[k])
         IN /\ Len(after.playerChain) = Len(s.playerChain) + 1
            /\ InChain(after.playerChain, path[k])
            /\ attemptsLeftIn(after) = attemptsLeftIn(s)
            /\ AllAccepted(after, path, k + 1)

\* the session after guessing the interior players of a path from s
RECURSIVE AfterGuessing(_, _, _)
AfterGuessing(s, path, k) ==
    IF k >= Len(path) THEN s ELSE AfterGuessing(guess(s, path[k]), path, k + 1)

\* the session is fresh: the chain is the two targets, it is Open and all
\* three attempts remain
FreshSession ==
    /\ playerChain = initialChain(targetPlayers.start, targetPlayers.end)
    /\ Open
    /\ attemptsLeft = 3

\* C28 (both clients): from a fresh session whose targets are connected but
\* not directly linked, guessing the interior players of the path returned by
\* findShortestSolution in path order gets every guess accepted, consumes no
\* attempt and ends Complete with the chain equal to that path.
C28_SolutionIsWinningLine ==
    (/\ FreshSession
     /\ AnchorsConnected
     /\ ~arePlayersLinked(targetPlayers.start, targetPlayers.end))
        => LET end == AfterGuessing(Session, shortestSolution, 2)
           IN /\ AllAccepted(Session, shortestSolution, 2)
              /\ end.gameComplete
              /\ ~end.gameFailed
              /\ IdsOf(end.playerChain) = shortestSolution
              /\ attemptsLeftIn(end) = 3

\* C28 witness: a session completed without a wrong guess whose chain is the
\* path of findShortestSolution, with three interior players.
C28_Witness ==
    /\ gameComplete
    /\ attemptsLeft = 3
    /\ Len(playerChain) = 5
    /\ IdsOf(playerChain) = shortestSolution

----------------------------------------------------------------------------
\* C29 (both clients): in every state reached by addLinkage and removePlayer
\* calls the chain holds no player id twice.
C29_NoDuplicateIds == NoRepeats(IdsOf(playerChain))

\* C29 witness: every player of the table is in the chain and the guess of a
\* player of the chain has just been rejected as a duplicate.
C29_Witness ==
    /\ Len(playerChain) = NumPlayers
    /\ selectedPlayer # NULL
    /\ InChain(playerChain, selectedPlayer)
    /\ errorMessage = "duplicate"

----------------------------------------------------------------------------
\* the nodes i..j of the chain (from 1) are linked each to the next
LinkedRun(chain, i, j) ==
    \A k \in i..(j - 1) : arePlayersLinked(chain[k].id, chain[k + 1].id)

\* the two-run form: the targets are at the two ends, the chain has at most
\* one gap, and every guess is joined by consecutive links to the start
\* target before it or to the end target after it
TwoRunForm(chain) ==
    /\ Len(chain) >= 2
    /\ chain[1] = [id |-> targetPlayers.start, isTarget |-> TRUE]
    /\ chain[Len(chain)] = [id |-> targetPlayers.end, isTarget |-> TRUE]
    /\ Cardinality(Gaps(chain)) <= 1
    /\ \A k \in 2..(Len(chain) - 1) :
           /\ ~chain[k].isTarget
           /\ LinkedRun(chain, 1, k) \/ LinkedRun(chain, k, Len(chain))

\* the two targets are the first and the last node of the chain, and its
\* only nodes tagged as targets
AnchorsAtEnds(chain) ==
    /\ Len(chain) >= 2
    /\ chain[1] = [id |-> targetPlayers.start, isTarget |-> TRUE]
    /\ chain[Len(chain)] = [id |-> targetPlayers.end, isTarget |-> TRUE]
    /\ \A k \in 2..(Len(chain) - 1) : ~chain[k].isTarget

\* C30 as stated (new client): removePlayer on a guess of a chain between the
\* two targets always leaves the chain in the two-run form, whatever the chain
\* was before.
C30_RemovalRestoresTwoRuns ==
    (client = "new" /\ AnchorsAtEnds(playerChain)) =>
        \A playerId \in PlayerIds :
            IsGuessCard(playerId)
                => TwoRunForm(removePlayerNew(Session, playerId).playerChain)

\* C30 amended (new client): in an Open session whose chain has the two
\* targets at its ends, removePlayer on a guess of the chain leaves the chain
\* in the two-run form, however many gaps the chain had before.
C30_OpenRemovalRestoresTwoRuns ==
    (client = "new" /\ Open /\ AnchorsAtEnds(playerChain)) =>
        \A playerId \in PlayerIds :
            IsGuessCard(playerId)
                => TwoRunForm(removePlayerNew(Session, playerId).playerChain)

\* C30 witness: an Open chain of the new client with two gaps and three
\* guesses, one of which removePlayer can take out leaving a guess behind.
C30_Witness ==
    /\ client = "new"
    /\ Open
    /\ Cardinality(Gaps(playerChain)) >= 2
    /\ Len(playerChain) = 5
    /\ \E playerId \in PlayerIds :
           /\ IsGuessCard(playerId)
           /\ Len(removePlayerNew(Session, playerId).playerChain) = 3

----------------------------------------------------------------------------
\* C31

\* playerId is a new guess for a chain with one gap and is linked to at least
\* one of the two nodes next to the gap
FrontierGuess(chain, playerId) ==
    /\ Cardinality(Gaps(chain)) = 1
    /\ ~InChain(chain, playerId)
    /\ \E f \in Frontier(chain) : arePlayersLinked(playerId, f)

\* C31: the two clients agree on frontier guesses: for the chain of the
\* session, when it has one gap, and every guess linked to at least one
\* frontier node, validateLinkage of the older client and validateLinkage of
\* the newer client (findBestInsertionPoint) both accept the guess and choose
\* the same insertion index, so the chain after the insertion is the same.
C31_ClientsAgreeOnFrontierGuesses ==
    \A playerId \in PlayerIds :
        FrontierGuess(playerChain, playerId) =>
            LET old == validateLinkageOld(playerChain, playerId)
                new == validateLinkageNew(playerChain, playerId)
            IN /\ old.isValid
               /\ new.isValid
               /\ old.insertionIndex = new.insertionIndex
               /\ insertPlayerInChain(playerChain, playerId, old.insertionIndex)
                    = insertPlayerInChain(playerChain, playerId, new.insertionIndex)

----------------------------------------------------------------------------
\* C32

\* the progress of the session fields s: chain, attempts and status
Progress(s) == <<s.playerChain, s.attemptsRemaining, s.gameComplete, s.gameFailed>>

\* the item stored under the key of the current puzzle date and difficulty of
\* s holds the progress of s
StoredEqualsMemory(s) ==
    s.localStorage[storageKey(puzzleDateOf(s), s.currentDifficulty)]
        = savedState(s.playerChain, s.attemptsRemaining, s.gameComplete, s.gameFailed)

\* the call that took the session to the fields after lost no progress
NoProgressLost(after) ==
    Progress(after) # Progress(Session) => StoredEqualsMemory(after)

\* C32: newer client: no progress is lost: when addLinkage() or
\* removePlayer(playerId) returns having changed the chain, attemptsRemaining,
\* gameComplete or gameFailed, the state stored under the key of the current
\* puzzle date and difficulty equals the in-memory state.
C32_NoProgressLost ==
    client = "new" =>
        /\ NoProgressLost(addLinkageNew(Session))
        /\ \A playerId \in PlayerIds :
               ~removePlayerNewThrows(Session, playerId) =>
                   NoProgressLost(removePlayerNew(Session, playerId))

\* a session with one attempt left in which the selected player is a wrong
\* guess, so that addLinkage() fails the session, and in which the removal of
\* a guess shortens the chain
C32_Witness ==
    /\ client = "new"
    /\ selectedPlayer # NULL
    /\ ~gameFailed
    /\ addLinkageNew(Session).gameFailed
    /\ StoredEqualsMemory(addLinkageNew(Session))
    /\ \E playerId \in PlayerIds :
           /\ IsGuessCard(playerId)
           /\ Len(removePlayerNew(Session, playerId).playerChain) < Len(playerChain)
           /\ StoredEqualsMemory(removePlayerNew(Session, playerId))

----------------------------------------------------------------------------
\* C33

\* the session fields s with the progress of a session just constructed, as
\* when the page is opened again
Forgotten(s) ==
    [s EXCEPT !.playerChain = <<>>, !.attemptsRemaining = 3,
              !.gameComplete = FALSE, !.gameFailed = FALSE]

\* saveGameState() in the session, then loadGameState(puzzleDate) for the same
\* puzzle date, difficulty and target players in a session that has forgotten
\* its progress
SaveThenLoad ==
    LET saved == saveGameState(Session)
    IN loadGameState(Forgotten(saved), puzzleDateOf(saved))

\* C33: newer client: save and load round-trip: for every session state,
\* saveGameState followed by loadGameState for the same puzzle date, difficulty
\* and target players returns true and restores exactly the same chain,
\* attemptsRemaining, gameComplete and gameFailed.
C33_SaveLoadRoundTrip ==
    client = "new" =>
        /\ SaveThenLoad.loaded
        /\ Progress(SaveThenLoad.session) = Progress(Session)

----------------------------------------------------------------------------
\* C34

\* the chain starts with the current start anchor and ends with the current
\* end anchor
BelongsToPuzzle(chain) ==
    /\ Len(chain) >= 1
    /\ chain[1].id = targetPlayers.start
    /\ chain[Len(chain)].id = targetPlayers.end

\* the state saved for puzzleDate and the current difficulty has a chain that
\* does not belong to the current puzzle
ForeignStateSaved(puzzleDate) ==
    LET item == localStorage[storageKey(puzzleDate, currentDifficulty)]
    IN item # <<>> /\ ~BelongsToPuzzle(item[1].playerChain)

\* C34: newer client: loadGameState loads a saved state only if it belongs to
\* the current puzzle: whenever the saved state's chain does not start with
\* the current start anchor and end with the current end anchor,
\* loadGameState returns false and leaves the chain, attemptsRemaining,
\* gameComplete and gameFailed unchanged.
C34_ForeignStateNotLoaded ==
    client = "new" =>
        \A puzzleDate \in Dates :
            ForeignStateSaved(puzzleDate) =>
                LET result == loadGameState(Session, puzzleDate)
                IN /\ ~result.loaded
                   /\ Progress(result.session) = Progress(Session)

----------------------------------------------------------------------------
\* C35

\* the session of the mode that is not current in the session fields s: the
\* progress a difficulty switch brings up
OtherModeProgress(s) == Progress(handleDifficultyChange(s))

\* C35: newer client: the two difficulty modes keep separate sessions: on one
\* puzzle date, each load finishing before the next action, a guess or a
\* removal made while one mode is current leaves the attempts remaining, the
\* chain and the complete/failed status of the other mode as they are, and
\* switching away and back restores those of the current mode exactly.
C35_ModesKeepSeparateSessions ==
    client = "new" =>
        /\ addButtonEnabled =>
               OtherModeProgress(addLinkageNew(Session)) = OtherModeProgress(Session)
        /\ \A playerId \in PlayerIds :
               IsGuessCard(playerId) =>
                   OtherModeProgress(removePlayerNew(Session, playerId))
                       = OtherModeProgress(Session)
        /\ OtherModeProgress(handleDifficultyChange(Session)) = Progress(Session)

\* both modes hold progress of their own: the current one has lost an attempt
\* and the other one has a guess in its chain; the selected player is a wrong
\* guess
C35_Witness ==
    /\ client = "new"
    /\ attemptsRemaining = 2
    /\ Len(playerChain) = 2
    /\ OtherModeProgress(Session)[2] = 3
    /\ Len(OtherModeProgress(Session)[1]) = 3
    /\ addButtonEnabled
    /\ addLinkageNew(Session).attemptsRemaining = 1

----------------------------------------------------------------------------
\* C36

\* C36: newer client: a guess is only ever judged against a loaded puzzle: in
\* every state in which addLinkage can run (a player is selected and the add
\* button is enabled), including while the load started by a difficulty
\* switch is in flight, the chain has at least two nodes and its first and
\* last nodes are the current target players.
C36_GuessJudgedAgainstLoadedPuzzle ==
    (client = "new" /\ addButtonEnabled) =>
        /\ Len(playerChain) >= 2
        /\ playerChain[1].id = targetPlayers.start
        /\ playerChain[Len(playerChain)].id = targetPlayers.end

----------------------------------------------------------------------------
\* C37

\* the target players of the puzzle of the current date and difficulty
CurrentPuzzle == PuzzleTargets(puzzleDateOf(Session), currentDifficulty)

\* C37: newer client: overlapping puzzle loads settle consistently: once all
\* the loads started by difficulty switches have completed, in whatever
\* order, the target players and the anchors of the chain are those of the
\* puzzle of the currently selected difficulty, and the key a save would
\* write is the key of that puzzle.
C37_LoadsSettleConsistently ==
    (client = "new" /\ pendingLoads = <<>>) =>
        /\ targetPlayers = CurrentPuzzle
        /\ Len(playerChain) >= 2
        /\ playerChain[1].id = CurrentPuzzle.start
        /\ playerChain[Len(playerChain)].id = CurrentPuzzle.end
        /\ saveGameState(Session).localStorage[
               storageKey(puzzleDateOf(Session), currentDifficulty)] # <<>>


====
